---- MODULE Spec2Model ----
(***************************************************************************)
(* A model of glaukos, the React state-distribution helper.                *)
(*                                                                         *)
(* The repository holds two versions of the library module:               *)
(*   "opts" : src/unnamed/part_000, configured by deepMemoize and          *)
(*            forceAsyncHandlers;                                          *)
(*   "tsx"  : src/src/index.tsx, which always deep-memoizes through        *)
(*            useConcurrentStore and always defers handlers.               *)
(* One instance is constructed by glaukos(useHook, opts); its Provider is  *)
(* mounted once and re-rendered (one update cycle per render).  Objects    *)
(* carry an identity (ref) next to their contents, so that Object.is,      *)
(* lodash isEqual and a field-by-field comparison are different relations. *)
(* A new object gets the smallest ref that no object still held by the     *)
(* program has, as an allocator reuses the addresses of collected objects. *)
(***************************************************************************)
EXTENDS Integers, Sequences, FiniteSets, TLC

VARIABLES
  variant,            \* which source file is running: "opts" or "tsx"
  opts,               \* the options object glaukos(useHook, opts) was given
  deepMemoize,        \* opts.deepMemoize
  forceAsyncHandlers, \* opts.forceAsyncHandlers
  globalStore,        \* globalStore / externalStore: state[providerId], names
  created,            \* how many times a proxiedHandlers table was built
  mounted,            \* the Provider has rendered at least once
  lastStore,          \* the store useHook() yielded in the latest update cycle
  lastHandlers,       \* the handler table it yielded in the latest update cycle
  handlersRef,        \* handlersRef.current
  deepRef,            \* ref.current of useDeepCompareMemoize (memo of the store)
  memoDeps,           \* the dependency list React.useMemo cached
  memoizedStore,      \* the value cached by React.useMemo
  concurrentSafeStore,\* tsx: the React.useState cell of useConcurrentStore
  effectRef,          \* tsx: ref.current of useDeepCompareMemoize (layout effect)
  rerenderPending,    \* tsx: setConcurrentSafeStore scheduled a render pass
  ctxValue,           \* the value Context.Provider provides (current snapshot)
  published,          \* what the latest update cycle did to the current snapshot
  observers,          \* useStore callers: selector, recorded selection, notified
  held,               \* the wrapper table a component got from useHandlers()
  calls,              \* wrapper calls made so far
  timers,             \* setTimeout queue (FIFO of macrotasks)
  callerActive,       \* a caller's synchronous execution is in progress
  env,                \* process.env.NODE_ENV
  idCounter,          \* lodash uniqueId: how many ids were handed out
  others,             \* the instances constructed after the one under study
  lastCall,           \* the latest glaukos(useHook, opts) call and its outcome
  lastRefs,           \* the refs useHook() yielded in the latest update cycle
  bridge,             \* what a rendered BridgeProvider passes to its subtree
  subtree             \* the children given to Provider and BridgeProvider, and
                      \* the children they render

vars == << variant, opts, deepMemoize, forceAsyncHandlers, globalStore, created,
           mounted, lastStore, lastHandlers, handlersRef, deepRef, memoDeps, memoizedStore,
           concurrentSafeStore, effectRef, rerenderPending, ctxValue, published,
           observers, held, calls, timers, callerActive, env, idCounter,
           others, lastCall, lastRefs, bridge, subtree >>

(***************************************************************************)
(* Bounds of the model.                                                    *)
(***************************************************************************)
MaxCalls == 2
MaxInstances == 2
MaxMounts == 2

(***************************************************************************)
(* Values.  Every value is [ref, val].  A primitive has the ref NoRef and  *)
(* is compared by val.  An object has a ref of its own (its identity): a   *)
(* mapping ("obj", "sel", "ctx") has its fields as val, an array ("arr")   *)
(* standing for [{id: v}] has v as val.                                    *)
(***************************************************************************)
Ref(k, n, o) == [k |-> k, n |-> n, o |-> o]
NoRef == Ref("prim", 0, "")
Prim(v) == [ref |-> NoRef, val |-> v]
Arr(n, v) == [ref |-> Ref("arr", n, ""), val |-> v]
Obj(r, f) == [ref |-> r, val |-> f]
EmptyFields == [k \in {} |-> Prim(0)]
Undefined == Obj(Ref("undefined", 0, ""), EmptyFields)
IsMapping(a) == a.ref.k \in {"obj", "sel", "ctx"}

\* The contents useHook() builds its store from: count, quote and the id of
\* the one element of items.
Contents == { << 0, "a", 1 >>, << 0, "b", 1 >>, << 1, "a", 1 >>, << 0, "a", 2 >> }
Names == {"onX", "onY"}
CallbackIds == {"f1", "f2"}
Obs == {"o1", "o2"}
Selectors == {"none", "count"}
UserRefs == {Ref("refs", 1, "")}
RefsTables == {Ref("refs", 1, ""), Ref("refs", 2, "")}
Args == {1}
name == "Screen"
providerId == 1

\* Object.is, as React and use-context-selector compare values.
ObjectIs(a, b) ==
  IF a.ref = NoRef /\ b.ref = NoRef THEN a.val = b.val ELSE a.ref = b.ref

\* lodash isEqual: identical values are equal, mappings are compared key by
\* key and recursively, arrays by their contents.
RECURSIVE isEqual(_, _)
isEqual(a, b) ==
  IF ObjectIs(a, b) THEN TRUE
  ELSE IF IsMapping(a) /\ IsMapping(b)
    THEN /\ DOMAIN a.val = DOMAIN b.val
         /\ \A k \in DOMAIN a.val : isEqual(a.val[k], b.val[k])
  ELSE IF a.ref.k = "arr" /\ b.ref.k = "arr" THEN a.val = b.val
  ELSE FALSE

\* isEqual on two dependency lists (arrays of values).
isEqualDeps(v, r) ==
  /\ Len(v) = Len(r)
  /\ \A i \in 1..Len(v) : isEqual(v[i], r[i])

\* useDeepCompareMemoize without its isEqual test: ref.current is always
\* replaced.  With it in place of useDeepCompareMemoize, C2 fails.
useDeepCompareMemoizeAlways(value, refCurrent) == value

\* useDeepCompareMemoize: the new ref.current, which is also what it returns.
useDeepCompareMemoize(value, refCurrent) ==
  IF ~isEqualDeps(value, refCurrent) THEN value ELSE refCurrent

\* React's comparison of a hook's dependency list with the cached one.
areHookInputsEqual(nextDeps, prevDeps) ==
  /\ Len(nextDeps) = Len(prevDeps)
  /\ \A i \in 1..Len(nextDeps) : ObjectIs(nextDeps[i], prevDeps[i])

\* A useMemo that compares the dependency lists with isEqual.  With it in
\* place of useMemo, C3 fails.
useMemoDeep(v, deps, pd, pv, first) ==
  IF first \/ ~isEqualDeps(deps, pd) THEN v ELSE pv

\* React.useMemo(() => v, deps) with the cache [deps |-> pd, value |-> pv];
\* first is TRUE on the render that mounts the hook.
useMemo(v, deps, pd, pv, first) ==
  IF first \/ ~areHookInputsEqual(deps, pd) THEN v ELSE pv


(***************************************************************************)
(* The state channel: Provider's memoization of the store and the          *)
(* selective subscription of use-context-selector.                         *)
(***************************************************************************)

\* A memoization that keeps the dependency list but returns the store of the
\* render.  With it in place of memoizedStoreOf, C24 fails.
memoizedStoreOfLatest(store, deep, dref, mdeps, mval, first) ==
  LET deps == IF deep THEN useDeepCompareMemoize(<< store >>, dref)
                      ELSE << store >>
  IN [deepRef |-> IF deep THEN deps ELSE dref,
      memoDeps |-> deps,
      value |-> store]

\* Provider, part_000: deepMemoize ? useDeepCompareMemo(() => store, [store])
\*                                 : React.useMemo(() => store, [store]).
\* Gives the new ref.current, the dependency list React caches and the
\* memoized store.
memoizedStoreOf(store, deep, dref, mdeps, mval, first) ==
  LET deps == IF deep THEN useDeepCompareMemoize(<< store >>, dref)
                      ELSE << store >>
  IN [deepRef |-> IF deep THEN deps ELSE dref,
      memoDeps |-> deps,
      value |-> useMemo(store, deps, mdeps, mval, first)]

\* useStore: the function handed to useContextSelector,
\* (ctxStore) => selector ? selector(ctxStore) : ctxStore.  A selector is
\* written as in the README, (store) => ({count: store.count}): every call
\* allocates a new mapping, here with a ref made of the observer and of the
\* snapshot it was computed from.
selectorKeys(sel) == IF sel = "count" THEN {"count"} ELSE {"quote"}

\* The selectors a reader passes: (store) => ({count: store.count}), and
\* one that throws when store.count is 1.  The Error it throws is named by
\* the reader and the snapshot.
ThrowingSelectors == {"throws"}
selectorThrows(sel, ctxStore) ==
  /\ sel \in ThrowingSelectors
  /\ "count" \in DOMAIN ctxStore.val
  /\ ctxStore.val.count = Prim(1)
userSelector(sel, ctxStore, o) ==
  IF selectorThrows(sel, ctxStore)
    THEN Obj(Ref("error", ctxStore.ref.n, o), EmptyFields)
    ELSE Obj(Ref("sel", ctxStore.ref.n, o),
             [k \in selectorKeys(IF sel \in ThrowingSelectors THEN "count" ELSE sel) |->
                IF k \in DOMAIN ctxStore.val THEN ctxStore.val[k] ELSE Undefined])

\* A useStore that drops its selector.  With it in place of selectorFn, C28
\* fails.
selectorFnWhole(sel, ctxStore, o) == ctxStore

\* A useStore that wraps the selector in try/catch and selects nothing when
\* it throws.  With it in place of selectorFn, C29 fails.
selectorFnCaught(sel, ctxStore, o) ==
  IF sel = "none" THEN ctxStore
  ELSE IF userSelector(sel, ctxStore, o).ref.k = "error" THEN Undefined
  ELSE userSelector(sel, ctxStore, o)

selectorFn(sel, ctxStore, o) ==
  IF sel = "none" THEN ctxStore ELSE userSelector(sel, ctxStore, o)

\* A reader whose render threw: React has unmounted it.
failed(ob) == ob.selected.ref.k = "error"

\* useContextSelector's comparison of the recorded selection with the new one.
selectionChanged(selected, nextSelected) == ~ObjectIs(selected, nextSelected)

\* useContextSelector's listener: on a new context value v it recomputes the
\* selection and re-renders the reader only when the selection changed.
listener(ob, o, v) ==
  LET nextSelected == selectorFn(ob.sel, v, o)
  IN IF selectionChanged(ob.selected, nextSelected)
       THEN [ob EXCEPT !.selected = nextSelected, !.notified = TRUE]
       ELSE [ob EXCEPT !.notified = FALSE]

\* The listeners of the Provider: the readers of its subtree and, when the
\* payload of the BridgeProvider is the Provider's own container, the readers
\* of the bridged subtree.
hears(ob) ==
  ob.sel # "unsub" /\ ~failed(ob) /\ (ob.pos = "inside" \/ bridge.live)

\* A provider that runs its listeners in the order o1, o2 and stops at the
\* first one that re-renders its reader.  With it in place of provide, C27
\* fails.
provideUntilFirst(v, obsv) ==
  IF ObjectIs(v, ctxValue)
    THEN [value |-> ctxValue,
          observers |-> [o \in Obs |-> [obsv[o] EXCEPT !.notified = FALSE]]]
    ELSE [value |-> v,
          observers |-> [o \in Obs |->
             IF hears(obsv[o])
                  /\ (o = "o1" \/ ~hears(obsv["o1"])
                        \/ ~listener(obsv["o1"], "o1", v).notified)
               THEN listener(obsv[o], o, v)
               ELSE [obsv[o] EXCEPT !.notified = FALSE]]]

\* Context.Provider value={v}: the provider's layout effect depends on
\* [value], so listeners run only when the value is a new one.
provide(v, obsv) ==
  IF ObjectIs(v, ctxValue)
    THEN [value |-> ctxValue,
          observers |-> [o \in Obs |-> [obsv[o] EXCEPT !.notified = FALSE]]]
    ELSE [value |-> v,
          observers |-> [o \in Obs |->
             IF hears(obsv[o]) THEN listener(obsv[o], o, v)
             ELSE [obsv[o] EXCEPT !.notified = FALSE]]]

\* update(thunk, {suspense: true}) of useContextUpdate: every listener gets a
\* pending action and throws its promise, so every reader is re-rendered.
suspendAll(obsv) ==
  [o \in Obs |-> IF hears(obsv[o]) THEN [obsv[o] EXCEPT !.notified = TRUE]
                 ELSE obsv[o]]

(***************************************************************************)
(* Allocation: the refs of the stores and arrays the program still holds.  *)
(***************************************************************************)
storeN(x) == IF x.ref.k = "obj" THEN {x.ref.n} ELSE {}
heldStoreNs ==
  storeN(lastStore) \cup storeN(memoizedStore) \cup storeN(concurrentSafeStore)
  \cup storeN(ctxValue)
  \cup UNION { storeN(deepRef[i]) : i \in DOMAIN deepRef }
  \cup UNION { storeN(memoDeps[i]) : i \in DOMAIN memoDeps }
  \cup UNION { storeN(effectRef[i]) : i \in DOMAIN effectRef }
freshN(S) == CHOOSE n \in 1..(Cardinality(S) + 1) :
               n \notin S /\ \A m \in 1..(n - 1) : m \in S

(***************************************************************************)
(* What useHook() can yield in an update cycle: a store (the object of the *)
(* previous cycle again, or a newly allocated one with a newly allocated   *)
(* nested array), a handler table and a refs table, each of which may be   *)
(* left out.                                                               *)
(***************************************************************************)
NoTable == [defined |-> FALSE, table |-> [k \in {} |-> "f1"]]
HandlerTables ==
  {NoTable} \cup
  { [defined |-> TRUE, table |-> t] :
      t \in { [k \in {"onX"} |-> "f1"], [k \in {"onX"} |-> "f2"],
              [k \in Names |-> IF k = "onX" THEN "f1" ELSE "f2"] } }
TablesOnX ==
  { [defined |-> TRUE, table |-> [k \in {"onX"} |-> f]] : f \in CallbackIds }
FreshStores ==
  { Obj(Ref("obj", freshN(heldStoreNs), ""),
        [count |-> Prim(c[1]), quote |-> Prim(c[2]),
         items |-> Arr(freshN(heldStoreNs), c[3])]) : c \in Contents }
HookStores ==
  {Undefined} \cup FreshStores \cup
  (IF lastStore = Undefined THEN {} ELSE {lastStore})
UndefinedRefs == Ref("undefined", 0, "")

\* createContext({store: {}, handlers: {}, refs: {}}): the default value.
defaultContext ==
  Obj(Ref("ctx", 0, ""),
      [store |-> Obj(Ref("obj", 0, "s"), EmptyFields),
       handlers |-> Obj(Ref("obj", 0, "h"), EmptyFields),
       refs |-> Obj(Ref("obj", 0, "r"), EmptyFields)])

noObserver ==
  [sel |-> "unsub", pos |-> "inside", selected |-> Undefined, notified |-> FALSE]
emptyWrappers == [tid |-> 0, keys |-> {}]
noWrappers == [tid |-> -1, keys |-> {}, cur |-> NoTable.table]

\* What an update cycle did to the current snapshot: nothing, replaced it by
\* one that is isEqual to it, or replaced it by a different one.
publication(old, new) ==
  IF ObjectIs(old, new) THEN "none"
  ELSE IF isEqual(old, new) THEN "equal" ELSE "changed"

\* The options objects of the instance under study: each option is left out
\* ("unset") or set to the value that is not its default.
OptsGiven ==
  [name : {name}, deepMemoize : {"unset", "false"},
   forceAsyncHandlers : {"unset", "true"}]

\* const { deepMemoize = true, forceAsyncHandlers = false, name } = opts
\* (part_000).  src/src/index.tsx reads only the name: its store always goes
\* through useDeepCompareMemo and its wrappers always return a promise.
deepMemoizeOf(v, o) ==
  IF v = "tsx" \/ o.deepMemoize = "unset" THEN TRUE ELSE o.deepMemoize = "true"
forceAsyncHandlersOf(v, o) ==
  IF v = "tsx" THEN TRUE
  ELSE IF o.forceAsyncHandlers = "unset" THEN FALSE
  ELSE o.forceAsyncHandlers = "true"

\* The outcome of no glaukos() call, and no BridgeProvider.
NoOpts == [defined |-> FALSE, hasName |-> FALSE, name |-> ""]
NoCall == [opts |-> NoOpts, result |-> "none", logged |-> FALSE]
NoBridge == [built |-> FALSE, live |-> FALSE, v |-> Undefined]

\* The elements a parent passes as children: each render of the parent makes
\* a new element or passes the one it made before.
Children == { Obj(Ref("jsx", n, ""), EmptyFields) : n \in {1, 2} }
NoSubtree ==
  [children |-> Undefined, memoizedChildren |-> Undefined,
   bridgeChildren |-> Undefined, bridgeMemoizedChildren |-> Undefined]

\* glaukos(useHook, opts): the state right after the call that constructed
\* the instance under study, which got the first id of uniqueId().
InitInstance ==
  /\ variant \in {"opts", "tsx"}
  /\ opts \in OptsGiven
  /\ variant = "tsx" =>
        (opts.deepMemoize = "unset" /\ opts.forceAsyncHandlers = "unset")
  /\ deepMemoize = deepMemoizeOf(variant, opts)
  /\ forceAsyncHandlers = forceAsyncHandlersOf(variant, opts)
  /\ globalStore =
       [state |-> [i \in {providerId} |->
                     [handlers |-> emptyWrappers, refs |-> Ref("refs", 0, "")]],
        names |-> {}]
  /\ created = 0
  /\ mounted = FALSE
  /\ lastStore = Undefined
  /\ lastHandlers = NoTable.table
  /\ handlersRef = NoTable.table
  /\ deepRef = << >>
  /\ memoDeps = << >>
  /\ memoizedStore = Undefined
  /\ concurrentSafeStore = Undefined
  /\ effectRef = << >>
  /\ rerenderPending = FALSE
  /\ ctxValue = defaultContext
  /\ published = "none"
  /\ observers = [o \in Obs |-> noObserver]
  /\ held = noWrappers
  /\ calls = << >>
  /\ timers = << >>
  /\ callerActive = FALSE
  /\ idCounter = providerId
  /\ others = << >>
  /\ lastCall = NoCall
  /\ lastRefs = UndefinedRefs
  /\ bridge = NoBridge
  /\ subtree = NoSubtree

Init == InitInstance /\ env = "development"

\* A Provider that copies the store it is given, {...store}, in every
\* render.  With it in place of storeOf, C5 fails.
storeOfSpread(h) ==
  Obj(Ref("obj", freshN(heldStoreNs), ""),
      IF h.store = Undefined THEN EmptyFields ELSE h.store.val)

\* A destructuring without the default of store.  With it in place of
\* storeOf, C30 fails.
storeOfNoDefault(h) == h.store

\* Provider, the destructuring defaults: store = {}, handlers = {}, refs = {}.
storeOf(h) ==
  IF h.store = Undefined
    THEN Obj(Ref("obj", freshN(heldStoreNs), ""), EmptyFields)
    ELSE h.store
sourceHandlersOf(h) ==
  IF h.handlers.defined THEN h.handlers.table ELSE NoTable.table
sourceRefsOf(h) ==
  IF h.refs = UndefinedRefs THEN Ref("refs", 0, "dflt") ELSE h.refs

\* A back-reference that is set by the first render only.  With it in place
\* of handlersRefOf, C4 fails.
handlersRefOfStale(sourceHandlers, current, first) ==
  IF first THEN sourceHandlers ELSE current

\* React.useMemo(() => { handlersRef.current = sourceHandlers },
\* [sourceHandlers]): the new handlersRef.current.
handlersRefOf(sourceHandlers, current, first) == sourceHandlers

\* A registration that runs in every render (a useMemo without []).  With it
\* in place of registerOnce, C6 fails.
registerEveryRender(sourceHandlers, sourceRefs, first) ==
  [globalStore |->
     [state |-> [globalStore.state EXCEPT ![providerId] =
                   [handlers |-> [tid |-> created + 1,
                                  keys |-> DOMAIN sourceHandlers],
                    refs |-> sourceRefs]],
      names |-> globalStore.names \cup {name}],
   created |-> created + 1]

\* A registration that stores the wrappers once but the refs in every
\* render.  With it in place of registerOnce, C12 fails.
registerRefsEveryRender(sourceHandlers, sourceRefs, first) ==
  [globalStore |->
     [state |-> [globalStore.state EXCEPT ![providerId] =
                   [handlers |-> IF first
                                   THEN [tid |-> created + 1,
                                         keys |-> DOMAIN sourceHandlers]
                                   ELSE globalStore.state[providerId].handlers,
                    refs |-> sourceRefs]],
      names |-> globalStore.names \cup {name}],
   created |-> IF first THEN created + 1 ELSE created]

\* The React.useMemo(..., []) of Provider: it runs in the render that mounts
\* the Provider, builds one wrapper per key of sourceHandlers, and stores the
\* wrappers, the refs and the name in the global object.
registerOnce(sourceHandlers, sourceRefs, first) ==
  IF ~first
    THEN [globalStore |-> globalStore, created |-> created]
    ELSE [globalStore |->
            [state |-> [globalStore.state EXCEPT ![providerId] =
                          [handlers |-> [tid |-> created + 1,
                                         keys |-> DOMAIN sourceHandlers],
                           refs |-> sourceRefs]],
             names |-> globalStore.names \cup {name}],
          created |-> created + 1]

\* The store path of part_000 (lines 219-228).
StorePathOpts(store) ==
  LET m == memoizedStoreOf(store, deepMemoize, deepRef, memoDeps,
                           memoizedStore, ~mounted)
      p == provide(m.value, observers)
  IN /\ deepRef' = m.deepRef
     /\ memoDeps' = m.memoDeps
     /\ memoizedStore' = m.value
     /\ ctxValue' = p.value
     /\ published' = publication(ctxValue, p.value)
     /\ observers' = p.observers
     /\ UNCHANGED << concurrentSafeStore, effectRef, rerenderPending >>

\* A layout effect whose dependency list is compared by identity only
\* (React.useLayoutEffect(..., [store])).  With it in place of effectDeps,
\* C31 fails.
effectDepsByIdentity(store, eref) == << store >>

\* useDeepCompareLayoutEffect(..., [store]): the dependency list React gets,
\* which is the one of the last run unless store is not isEqual to it.
effectDeps(store, eref) == useDeepCompareMemoize(<< store >>, eref)

\* The store path of src/src/index.tsx: useConcurrentStore(Context, store).
\* The render memoizes the useState cell; the layout effect, which runs
\* after Context.Provider's, calls update(() => setConcurrentSafeStore(store))
\* when store is not isEqual to the store of its last run.
StorePathTsx(store) ==
  LET css == IF mounted THEN concurrentSafeStore ELSE store
      m == memoizedStoreOf(css, TRUE, deepRef, memoDeps, memoizedStore, ~mounted)
      p == provide(m.value, observers)
      effDeps == effectDeps(store, effectRef)
      fires == ~mounted \/ ~areHookInputsEqual(effDeps, effectRef)
  IN /\ deepRef' = m.deepRef
     /\ memoDeps' = m.memoDeps
     /\ memoizedStore' = m.value
     /\ ctxValue' = p.value
     /\ published' = publication(ctxValue, p.value)
     /\ effectRef' = effDeps
     /\ observers' = IF fires THEN suspendAll(p.observers) ELSE p.observers
     /\ concurrentSafeStore' = IF fires THEN store ELSE css
     /\ rerenderPending' = (fires /\ ~ObjectIs(store, css))

\* The children prop of a render of the Provider; a parent that is not
\* modelled passes the same element in every render.
childrenOf(h) ==
  IF "children" \in DOMAIN h THEN h.children
  ELSE Obj(Ref("jsx", 1, ""), EmptyFields)

\* A Provider that memoizes its children on [children].  With it in place of
\* memoizedChildrenOf, C35 fails.
memoizedChildrenOfDeps(children, prev, first) == children

\* const memoizedChildren = React.useMemo(() => children, []).
memoizedChildrenOf(children, prev, first) ==
  useMemo(children, << >>, << >>, prev, first)

\* One update cycle: the Provider renders, calling useHook() and getting its
\* children prop.
ProviderRender(h) ==
  /\ ~callerActive
  /\ LET store == storeOf(h)
         sourceHandlers == sourceHandlersOf(h)
         r == registerOnce(sourceHandlers, sourceRefsOf(h), ~mounted)
     IN /\ handlersRef' = handlersRefOf(sourceHandlers, handlersRef, ~mounted)
        /\ globalStore' = r.globalStore
        /\ created' = r.created
        /\ lastStore' = h.store
        /\ lastHandlers' = sourceHandlers
        /\ lastRefs' = h.refs
        /\ IF variant = "opts" THEN StorePathOpts(store) ELSE StorePathTsx(store)
        /\ subtree' = [subtree EXCEPT
              !.children = childrenOf(h),
              !.memoizedChildren =
                 memoizedChildrenOf(childrenOf(h), @, ~mounted)]
  /\ mounted' = TRUE
  /\ UNCHANGED << variant, opts, env, idCounter, others, lastCall, bridge,
                  deepMemoize, forceAsyncHandlers, held, calls, timers,
                  callerActive >>

\* A reader component mounts in the Provider's subtree and calls useStore.
Subscribe(o, sel) ==
  /\ mounted
  /\ ~rerenderPending
  /\ ~callerActive
  /\ observers[o].sel = "unsub"
  /\ observers' = [observers EXCEPT ![o] =
                     [sel |-> sel, pos |-> "inside",
                      selected |-> selectorFn(sel, ctxValue, o),
                      notified |-> FALSE]]
  /\ UNCHANGED << subtree, variant, opts, env, idCounter, others, lastCall, lastRefs,
                  bridge, deepMemoize, forceAsyncHandlers, globalStore, created,
                  mounted, lastStore, lastHandlers, handlersRef, deepRef,
                  memoDeps, memoizedStore, concurrentSafeStore, effectRef,
                  rerenderPending, ctxValue, published, held, calls, timers,
                  callerActive >>

(***************************************************************************)
(* The handler channel: the wrappers built by Provider, the timers of      *)
(* setTimeout and the promises of the forced-deferred wrappers.            *)
(***************************************************************************)

\* useHandlers(): globalStore.state[providerId].handlers.
useHandlers == globalStore.state[providerId].handlers
\* useRefs(): globalStore.state[providerId].refs.
useRefs == globalStore.state[providerId].refs

\* A component calls useHandlers() and keeps the table it got.
UseHandlers ==
  /\ ~callerActive
  /\ held.tid # useHandlers.tid
  /\ held' = [tid |-> useHandlers.tid, keys |-> useHandlers.keys,
              cur |-> lastHandlers]
  /\ UNCHANGED << subtree, variant, opts, env, idCounter, others, lastCall, lastRefs,
                  bridge, deepMemoize, forceAsyncHandlers, globalStore, created,
                  mounted, lastStore, lastHandlers, handlersRef, deepRef,
                  memoDeps, memoizedStore, concurrentSafeStore, effectRef,
                  rerenderPending, ctxValue, published, observers, calls, timers,
                  callerActive >>

\* What a callback does when it is invoked: it returns a value, throws, or
\* returns a promise.  The value, error or promise of callback cb on the
\* argument a is named by cb and a.
Behaviours == {"return", "throw", "promise"}
callbackOutcome(cb, a, beh) ==
  IF beh = "return" THEN << "val", cb, a >>
  ELSE IF beh = "throw" THEN << "err", cb, a >>
  ELSE << "promise", cb, a >>
TypeError == << "err", "TypeError", 0 >>
NoResult == << "none", "", 0 >>

\* (handlersRef.current as any)[key]
wrapperTarget(key, current) ==
  IF key \in DOMAIN current THEN current[key] ELSE "undefined"
\* A wrapper that calls target() without the arguments.  With it in place of
\* wrapperArgs, C10 fails.
wrapperArgsDropped(a) == 0

\* (...args) => target(...args)
wrapperArgs(a) == a

\* The record of a wrapper call: seen is the callback of the table of the
\* cycle in which the wrapper was obtained, atCall the callback of the
\* back-reference when the wrapper is called.
newCall(key, a) ==
  [key |-> key, arg |-> a, seen |-> wrapperTarget(key, held.cur),
   atCall |-> wrapperTarget(key, handlersRef),
   deferred |-> FALSE, cb |-> "none", cbArg |-> 0, beh |-> "none", n |-> 0,
   inner |-> "none", st |-> "called", res |-> NoResult, inTurn |-> TRUE]

\* A wrapper that invokes the callback again when it threw.  With it in
\* place of invoked, C26 fails.
invokedWithRetry(c, target, beh) ==
  [c EXCEPT !.cb = target, !.cbArg = wrapperArgs(c.arg), !.beh = beh,
            !.n = IF beh = "throw" THEN @ + 2 ELSE @ + 1,
            !.inner = IF beh = "promise" THEN "pending" ELSE "none"]

\* The callback of call c is invoked with behaviour beh: the call with the
\* invocation recorded and counted.
invoked(c, target, beh) ==
  [c EXCEPT !.cb = target, !.cbArg = wrapperArgs(c.arg), !.beh = beh,
            !.n = @ + 1,
            !.inner = IF beh = "promise" THEN "pending" ELSE "none"]

\* Passthrough mode (part_000:184-186):
\* return (handlersRef.current as any)[key](...args).
passthrough(c, target, beh) ==
  IF target = "undefined"
    THEN [c EXCEPT !.st = "threw", !.res = TypeError]
    ELSE LET d == invoked(c, target, beh)
         IN [d EXCEPT !.st = IF beh = "throw" THEN "threw" ELSE "returned",
                      !.res = callbackOutcome(target, d.cbArg, beh)]

\* The timer callback of part_000 (lines 192-201):
\*   try { const response = await target(...args);
\*         setTimeout(() => resolve(response)) } catch (err) { reject(err) }
timerOpts(c, target, beh) ==
  IF target = "undefined"
    THEN [c EXCEPT !.st = "rejected", !.res = TypeError]
    ELSE LET d == invoked(c, target, beh)
         IN IF beh = "throw"
              THEN [d EXCEPT !.st = "rejected",
                             !.res = callbackOutcome(target, d.cbArg, beh)]
            ELSE IF beh = "return"
              THEN [d EXCEPT !.st = "resolving"]
            ELSE [d EXCEPT !.st = "awaiting"]

\* The timer callback of src/src/index.tsx (lines 218-230):
\*   const response = target(...args);
\*   if (isResponsePromise) response.then(resolve).catch(reject)
\*   else resolve(response)
\* An exception leaves the timer callback uncaught and the promise pending.
timerTsx(c, target, beh) ==
  IF target = "undefined"
    THEN [c EXCEPT !.st = "lost"]
    ELSE LET d == invoked(c, target, beh)
         IN IF beh = "throw" THEN [d EXCEPT !.st = "lost"]
            ELSE IF beh = "return"
              THEN [d EXCEPT !.st = "resolved",
                             !.res = callbackOutcome(target, d.cbArg, beh)]
            ELSE [d EXCEPT !.st = "awaiting"]

\* A promise executor that calls the callback itself and leaves only the
\* resolution to the timer.  With it in place of deferredCall, C7 fails.
deferredCallEager(c, target) ==
  [invoked(c, target, "return") EXCEPT !.deferred = TRUE, !.st = "scheduled"]

\* Forced-deferred mode: return new Promise((resolve, reject) =>
\* { setTimeout(...) }).  The executor only sets the timer.
deferredCall(c, target) == [c EXCEPT !.deferred = TRUE, !.st = "scheduled"]

\* A timer callback that invokes the callback the back-reference held when
\* the wrapper was called.  With it in place of timerTarget, C21 fails.
timerTargetAtCall(c, current) == c.atCall

\* The timer callback reads (handlersRef.current as any)[key] when it runs.
timerTarget(c, current) == wrapperTarget(c.key, current)

\* A caller calls the wrapper key of the table it holds, with argument a.
\* In passthrough mode the callback runs inside the call; otherwise the
\* wrapper returns new Promise(...) after setTimeout(...).
CallWrapper(key, a, beh) ==
  /\ Len(calls) < MaxCalls
  /\ ~rerenderPending
  /\ key \in held.keys
  /\ LET c == newCall(key, a)
         target == wrapperTarget(key, handlersRef)
     IN IF ~forceAsyncHandlers
          THEN /\ beh # "none"
               /\ calls' = Append(calls, passthrough(c, target, beh))
               /\ timers' = timers
          ELSE /\ beh = "none"
               /\ calls' = Append(calls, deferredCall(c, target))
               /\ timers' = Append(timers, [kind |-> "invoke", i |-> Len(calls) + 1])
  /\ callerActive' = TRUE
  /\ UNCHANGED << subtree, variant, opts, env, idCounter, others, lastCall, lastRefs,
                  bridge, deepMemoize, forceAsyncHandlers, globalStore, created,
                  mounted, lastStore, lastHandlers, handlersRef, deepRef,
                  memoDeps, memoizedStore, concurrentSafeStore, effectRef,
                  rerenderPending, ctxValue, published, observers, held >>

\* The caller's synchronous execution ends: the event loop takes over.
EndCaller ==
  /\ callerActive
  /\ callerActive' = FALSE
  /\ calls' = [i \in DOMAIN calls |-> [calls[i] EXCEPT !.inTurn = FALSE]]
  /\ UNCHANGED << subtree, variant, opts, env, idCounter, others, lastCall, lastRefs,
                  bridge, deepMemoize, forceAsyncHandlers, globalStore, created,
                  mounted, lastStore, lastHandlers, handlersRef, deepRef,
                  memoDeps, memoizedStore, concurrentSafeStore, effectRef,
                  rerenderPending, ctxValue, published, observers, held, timers >>

\* The event loop runs the oldest timer: the callback of a wrapper's first
\* setTimeout, or the () => resolve(response) of its second one.
RunTimer(beh) ==
  /\ ~callerActive
  /\ ~rerenderPending
  /\ timers # << >>
  /\ LET t == Head(timers)
         c == calls[t.i]
         target == timerTarget(c, handlersRef)
         d == IF t.kind = "resolve"
                THEN [c EXCEPT !.st = "resolved",
                               !.res = callbackOutcome(c.cb, c.cbArg, "return")]
              ELSE IF variant = "opts" THEN timerOpts(c, target, beh)
              ELSE timerTsx(c, target, beh)
     IN /\ (t.kind = "resolve" \/ target = "undefined") => beh = "return"
        /\ calls' = [calls EXCEPT ![t.i] = d]
        /\ timers' = IF d.st = "resolving"
                       THEN Append(Tail(timers), [kind |-> "resolve", i |-> t.i])
                       ELSE Tail(timers)
  /\ UNCHANGED << subtree, variant, opts, env, idCounter, others, lastCall, lastRefs,
                  bridge, deepMemoize, forceAsyncHandlers, globalStore, created,
                  mounted, lastStore, lastHandlers, handlersRef, deepRef,
                  memoDeps, memoizedStore, concurrentSafeStore, effectRef,
                  rerenderPending, ctxValue, published, observers, held, callerActive >>

\* The promise the callback returned settles and the continuation waiting for
\* it runs: part_000 then sets the second timer or rejects, index.tsx
\* resolves or rejects at once.
settled(c, fulfilled) ==
  IF ~fulfilled
    THEN [c EXCEPT !.inner = "rejected", !.st = "rejected",
                   !.res = callbackOutcome(c.cb, c.cbArg, "throw")]
  ELSE IF variant = "opts"
    THEN [c EXCEPT !.inner = "fulfilled", !.st = "resolving"]
  ELSE [c EXCEPT !.inner = "fulfilled", !.st = "resolved",
                 !.res = callbackOutcome(c.cb, c.cbArg, "return")]

SettleInner(i, fulfilled) ==
  /\ ~callerActive
  /\ ~rerenderPending
  /\ calls[i].st = "awaiting"
  /\ LET d == settled(calls[i], fulfilled)
     IN /\ calls' = [calls EXCEPT ![i] = d]
        /\ timers' = IF d.st = "resolving"
                       THEN Append(timers, [kind |-> "resolve", i |-> i])
                       ELSE timers
  /\ UNCHANGED << subtree, variant, opts, env, idCounter, others, lastCall, lastRefs,
                  bridge, deepMemoize, forceAsyncHandlers, globalStore, created,
                  mounted, lastStore, lastHandlers, handlersRef, deepRef,
                  memoDeps, memoizedStore, concurrentSafeStore, effectRef,
                  rerenderPending, ctxValue, published, observers, held, callerActive >>

(***************************************************************************)
(* The registry: glaukos() calls that construct further instances, the     *)
(* Providers of those instances, and the unmounting of the Provider under  *)
(* study.                                                                  *)
(***************************************************************************)
Envs == {"development", "production"}

\* The second argument of a glaukos() call: left out, an object without a
\* name, or an object whose name is "", the name of the instance under study,
\* another name or the name of a property of Object.prototype.
ConstructOpts ==
  { NoOpts,
    [defined |-> TRUE, hasName |-> FALSE, name |-> ""],
    [defined |-> TRUE, hasName |-> TRUE, name |-> ""],
    [defined |-> TRUE, hasName |-> TRUE, name |-> name],
    [defined |-> TRUE, hasName |-> TRUE, name |-> "Other"],
    [defined |-> TRUE, hasName |-> TRUE, name |-> "constructor"] }

\* globalStore.names is the object literal {}: a key it does not own is
\* looked up in Object.prototype, whose properties (constructor, toString,
\* hasOwnProperty, ...) are not undefined.
ObjectPrototypeKeys == {"constructor"}

\* typeof globalStore.names[name] !== "undefined"
nameTaken(names, nm) == nm \in names \/ nm \in ObjectPrototypeKeys

\* A key by name: instances of one name share a slot.  With it in place of
\* slotOf, C15 fails.
slotOfName(id, nm) == IF nm = name THEN providerId ELSE id

\* globalStore.state[providerId]: the slot of an instance is keyed by its id.
slotOf(id, nm) == id

\* A glaukos() that takes its id and allocates its slot before it validates
\* the options.  With it in place of glaukosCall, C17 fails.
glaukosCallAllocFirst(gs, counter, e, o) ==
  [result |-> IF ~o.defined THEN "no options"
              ELSE IF ~o.hasName THEN "no name"
              ELSE IF nameTaken(gs.names, o.name) /\ e = "development"
                THEN "duplicate name" ELSE "ok",
   logged |-> o.defined /\ o.hasName /\ nameTaken(gs.names, o.name) /\ e # "development",
   idCounter |-> counter + 1,
   globalStore |->
     [state |-> [i \in DOMAIN gs.state \cup {counter + 1} |->
                   IF i = counter + 1
                     THEN [handlers |-> [tid |-> 10 * i, keys |-> {}],
                           refs |-> Ref("refs", 0, "other")]
                     ELSE gs.state[i]],
      names |-> gs.names]]

\* An id generator that returns the id it returned last.  With it in place
\* of uniqueId, C22 fails.
uniqueIdRepeated(counter) == counter

\* lodash uniqueId(): the global idCounter is incremented and returned.
uniqueId(counter) == counter + 1

\* A glaukos() that enters the name in globalStore.names itself.  With it in
\* place of glaukosCall, C33 fails.
glaukosCallRecordsName(gs, counter, e, o) ==
  IF ~o.defined
    THEN [result |-> "no options", logged |-> FALSE, idCounter |-> counter,
          globalStore |-> gs]
  ELSE IF ~o.hasName
    THEN [result |-> "no name", logged |-> FALSE, idCounter |-> counter,
          globalStore |-> gs]
  ELSE IF nameTaken(gs.names, o.name) /\ e = "development"
    THEN [result |-> "duplicate name", logged |-> FALSE, idCounter |-> counter,
          globalStore |-> gs]
  ELSE [result |-> "ok",
        logged |-> nameTaken(gs.names, o.name),
        idCounter |-> counter + 1,
        globalStore |->
          [state |-> [i \in DOMAIN gs.state \cup {counter + 1} |->
                        IF i = counter + 1
                          THEN [handlers |-> [tid |-> 10 * i, keys |-> {}],
                                refs |-> Ref("refs", 0, "other")]
                          ELSE gs.state[i]],
           names |-> gs.names \cup {o.name}]]

\* glaukos(useHook, o) up to the allocation of the slot: the two typeof
\* checks, the duplicate name check (an Error in development, console.error
\* otherwise), uniqueId() and globalStore.state[providerId] = {handlers: {},
\* refs: {}}.
glaukosCall(gs, counter, e, o) ==
  IF ~o.defined
    THEN [result |-> "no options", logged |-> FALSE, idCounter |-> counter,
          globalStore |-> gs]
  ELSE IF ~o.hasName
    THEN [result |-> "no name", logged |-> FALSE, idCounter |-> counter,
          globalStore |-> gs]
  ELSE IF nameTaken(gs.names, o.name) /\ e = "development"
    THEN [result |-> "duplicate name", logged |-> FALSE, idCounter |-> counter,
          globalStore |-> gs]
  ELSE LET id == uniqueId(counter)
           slot == slotOf(id, o.name)
       IN [result |-> "ok",
           logged |-> nameTaken(gs.names, o.name),
           idCounter |-> id,
           globalStore |->
             [state |-> [i \in DOMAIN gs.state \cup {slot} |->
                           IF i = slot
                             THEN [handlers |-> [tid |-> 10 * id, keys |-> {}],
                                   refs |-> Ref("refs", 0, "other")]
                             ELSE gs.state[i]],
              names |-> gs.names]]

\* The hook state of the Provider of a newly constructed instance.
newInstance(id, nm) ==
  [id |-> id, name |-> nm, mounted |-> FALSE, created |-> 0,
   handlersRef |-> NoTable.table, deepRef |-> << >>, memoDeps |-> << >>,
   memoizedStore |-> Undefined, concurrentSafeStore |-> Undefined,
   effectRef |-> << >>,
   ctxValue |-> Obj(Ref("ctx", id, ""), defaultContext.val)]

\* A glaukos(useHook, o) call.
Construct(o) ==
  /\ ~callerActive
  /\ idCounter < MaxInstances
  /\ LET r == glaukosCall(globalStore, idCounter, env, o)
     IN /\ lastCall' = [opts |-> o, result |-> r.result, logged |-> r.logged]
        /\ globalStore' = r.globalStore
        /\ idCounter' = r.idCounter
        /\ others' = IF r.result = "ok"
                       THEN Append(others, newInstance(r.idCounter, o.name))
                       ELSE others
  /\ UNCHANGED << subtree, variant, opts, env, deepMemoize, forceAsyncHandlers, created,
                  mounted, lastStore, lastHandlers, lastRefs, handlersRef,
                  deepRef, memoDeps, memoizedStore, concurrentSafeStore,
                  effectRef, rerenderPending, ctxValue, published, observers,
                  held, calls, timers, callerActive, bridge >>

\* What the useHook of another instance yields: one of two stores, a handler
\* table and one of two refs tables, all objects of their own.
OtherYields ==
  [store : { Obj(Ref("obj", n, "other"), [count |-> Prim(n)]) : n \in {1, 2} },
   handlers : TablesOnX,
   refs : { Ref("refs", n, "other") : n \in {1, 2} }]

\* The useMemo(..., []) of the Provider of instance o.
registerAt(gs, o, sourceHandlers, sourceRefs, first) ==
  IF ~first THEN gs
  ELSE [state |-> [gs.state EXCEPT ![slotOf(o.id, o.name)] =
                     [handlers |-> [tid |-> 10 * o.id + o.created + 1,
                                    keys |-> DOMAIN sourceHandlers],
                      refs |-> sourceRefs]],
        names |-> gs.names \cup {o.name}]

\* The store path of the Provider of instance o, which was constructed with
\* a name only.  For src/src/index.tsx the render pass that
\* setConcurrentSafeStore forces is part of the step.
storePathAt(o, store, first) ==
  LET effDeps == useDeepCompareMemoize(<< store >>, o.effectRef)
      fires == first \/ ~areHookInputsEqual(effDeps, o.effectRef)
      css == IF variant = "opts" \/ fires THEN store ELSE o.concurrentSafeStore
      m == memoizedStoreOf(css, TRUE, o.deepRef, o.memoDeps, o.memoizedStore, first)
  IN [o EXCEPT !.deepRef = m.deepRef, !.memoDeps = m.memoDeps,
               !.memoizedStore = m.value, !.ctxValue = m.value,
               !.concurrentSafeStore = IF variant = "opts" THEN @ ELSE css,
               !.effectRef = IF variant = "opts" THEN @ ELSE effDeps]

\* One update cycle of the Provider of the k-th other instance.
OtherRender(k, h) ==
  /\ ~callerActive
  /\ k \in DOMAIN others
  /\ LET o == others[k]
         first == ~o.mounted
         sourceHandlers == sourceHandlersOf(h)
         p == storePathAt(o, h.store, first)
     IN /\ others' = [others EXCEPT ![k] =
                        [p EXCEPT !.mounted = TRUE,
                                  !.created = IF first THEN @ + 1 ELSE @,
                                  !.handlersRef =
                                     handlersRefOf(sourceHandlers, o.handlersRef, first)]]
        /\ globalStore' = registerAt(globalStore, o, sourceHandlers, h.refs, first)
  /\ UNCHANGED << subtree, variant, opts, env, idCounter, lastCall, deepMemoize,
                  forceAsyncHandlers, created, mounted, lastStore, lastHandlers,
                  lastRefs, handlersRef, deepRef, memoDeps, memoizedStore,
                  concurrentSafeStore, effectRef, rerenderPending, ctxValue,
                  published, observers, held, calls, timers, callerActive,
                  bridge >>

\* React unmounts the Provider under study: its hook state is dropped, the
\* readers of its subtree are gone.  Nothing in the code touches the global
\* object then, and the wrappers a component holds keep their back-reference.
Unmount ==
  /\ mounted
  /\ ~callerActive
  /\ ~rerenderPending
  /\ created < MaxMounts
  /\ mounted' = FALSE
  /\ lastStore' = Undefined
  /\ lastRefs' = UndefinedRefs
  /\ deepRef' = << >>
  /\ memoDeps' = << >>
  /\ memoizedStore' = Undefined
  /\ concurrentSafeStore' = Undefined
  /\ effectRef' = << >>
  /\ ctxValue' = defaultContext
  /\ published' = "none"
  /\ observers' = [o \in Obs |-> noObserver]
  /\ bridge' = NoBridge
  /\ subtree' = NoSubtree
  /\ UNCHANGED << variant, opts, env, idCounter, others, lastCall, deepMemoize,
                  forceAsyncHandlers, globalStore, created, lastHandlers,
                  handlersRef, rerenderPending, held, calls, timers,
                  callerActive >>

(***************************************************************************)
(* The bridge: BridgeProvider and the readers at the three positions of    *)
(* the tree.                                                               *)
(***************************************************************************)
Positions == {"inside", "bridged", "outside"}

\* A payload that is a copy of the snapshot taken when the BridgeProvider
\* rendered.  With it in place of bridgeValueOf, C13 fails.
bridgeValueSnapshot(v) == [built |-> TRUE, live |-> FALSE, v |-> v]

\* useBridgeValue(Context) in the Provider's subtree: the container the
\* Provider made for its value and its listeners; v is the snapshot of the
\* moment, which a reader does not use.
bridgeValueOf(v) == [built |-> TRUE, live |-> TRUE, v |-> v]

\* The snapshot a reader reads through the payload b.
readThrough(b, current) == IF b.live THEN current ELSE b.v

\* What useStore() reads at a position of the tree.
readStore(pos) ==
  IF pos = "inside" /\ mounted THEN ctxValue
  ELSE IF pos = "bridged" /\ bridge.built THEN readThrough(bridge, ctxValue)
  ELSE defaultContext

\* A reader that takes the handlers from the context of its position.  With
\* it in place of readHandlers, C18 fails.
readHandlersFromContext(pos) ==
  IF pos = "outside" THEN emptyWrappers ELSE globalStore.state[providerId].handlers

\* What useHandlers() and useRefs() return at a position of the tree.
readHandlers(pos) == useHandlers
readRefs(pos) == useRefs

\* const memoizedChildren = React.useMemo(() => children, [children]) of
\* BridgeProvider.
bridgeChildrenOf(children, prevChildren, prev, first) ==
  useMemo(children, << children >>, << prevChildren >>, prev, first)

\* The BridgeProvider renders in the Provider's subtree with the children c
\* and passes useBridgeValue(Context) and its memoized children to the tree
\* that renderer builds.
BridgeRenderWith(c) ==
  /\ mounted
  /\ ~callerActive
  /\ ~rerenderPending
  /\ bridge' = bridgeValueOf(ctxValue)
  /\ subtree' = [subtree EXCEPT
        !.bridgeChildren = c,
        !.bridgeMemoizedChildren =
           bridgeChildrenOf(c, subtree.bridgeChildren, @, ~bridge.built)]
  /\ UNCHANGED << variant, opts, env, idCounter, others, lastCall, lastRefs,
                  deepMemoize, forceAsyncHandlers, globalStore, created,
                  mounted, lastStore, lastHandlers, handlersRef, deepRef,
                  memoDeps, memoizedStore, concurrentSafeStore, effectRef,
                  rerenderPending, ctxValue, published, observers, held, calls,
                  timers, callerActive >>

\* The BridgeProvider is rendered once, by a parent that passes the same
\* element in every render.
BridgeRender ==
  /\ ~bridge.built
  /\ BridgeRenderWith(Obj(Ref("jsx", 1, ""), EmptyFields))

\* A reader component mounts in the bridged subtree and calls useStore.
SubscribeBridged(o, sel) ==
  /\ bridge.built
  /\ ~rerenderPending
  /\ ~callerActive
  /\ observers[o].sel = "unsub"
  /\ observers' = [observers EXCEPT ![o] =
                     [sel |-> sel, pos |-> "bridged",
                      selected |-> selectorFn(sel, readStore("bridged"), o),
                      notified |-> FALSE]]
  /\ UNCHANGED << subtree, variant, opts, env, idCounter, others, lastCall, lastRefs,
                  bridge, deepMemoize, forceAsyncHandlers, globalStore, created,
                  mounted, lastStore, lastHandlers, handlersRef, deepRef,
                  memoDeps, memoizedStore, concurrentSafeStore, effectRef,
                  rerenderPending, ctxValue, published, held, calls, timers,
                  callerActive >>

\* Stores whose fields are all primitive, newly allocated in every cycle.
PlainStores ==
  { Obj(Ref("obj", freshN(heldStoreNs), ""), [count |-> Prim(c)]) : c \in {0, 1} }

(***************************************************************************)
(* Specifications.  Spec exercises the state channel: stores of every      *)
(* content and identity, two handler tables, a refs table.                 *)
(* SpecHandlers exercises the handler channel: every handler table, a      *)
(* store that is left out or kept, wrapper calls and the event loop.       *)
(***************************************************************************)

Next ==
  \/ \E h \in [store : HookStores, handlers : TablesOnX, refs : UserRefs] :
        ProviderRender(h)
  \/ \E o \in Obs, sel \in Selectors : Subscribe(o, sel)
  \/ UseHandlers

Spec == Init /\ [][Next]_vars

NextHandlers ==
  \/ \E h \in [store : {Undefined}, handlers : HandlerTables,
               refs : {UndefinedRefs}] :
        ProviderRender(h)
  \/ UseHandlers
  \/ \E key \in Names, a \in Args, beh \in Behaviours \cup {"none"} :
        CallWrapper(key, a, beh)
  \/ EndCaller
  \/ \E beh \in Behaviours : RunTimer(beh)
  \/ \E i \in DOMAIN calls, fulfilled \in BOOLEAN : SettleInner(i, fulfilled)

InitHandlers == Init /\ deepMemoize

SpecHandlers == InitHandlers /\ [][NextHandlers]_vars

\* SpecRegistry exercises the registry: glaukos() calls in both modes of
\* NODE_ENV, a second instance, refs tables, unmounting and remounting.
NextRegistry ==
  \/ \E h \in [store : {Undefined}, handlers : TablesOnX, refs : RefsTables] :
        ProviderRender(h)
  \/ Unmount
  \/ \E o \in ConstructOpts : Construct(o)
  \/ \E k \in 1..MaxInstances, h \in OtherYields : OtherRender(k, h)

InitRegistry ==
  /\ InitInstance
  /\ env \in Envs
  /\ opts.deepMemoize = "unset" /\ opts.forceAsyncHandlers = "unset"

SpecRegistry == InitRegistry /\ [][NextRegistry]_vars

\* SpecBridge exercises the readers at the three positions of the tree:
\* stores of primitive fields, readers in the Provider's subtree and in the
\* subtree of a BridgeProvider.
NextBridge ==
  \/ \E h \in [store : PlainStores \cup {Undefined}, handlers : TablesOnX,
               refs : UserRefs] :
        ProviderRender(h)
  \/ \E o \in Obs, sel \in Selectors : Subscribe(o, sel)
  \/ BridgeRender
  \/ \E o \in Obs, sel \in Selectors : SubscribeBridged(o, sel)

SpecBridge == Init /\ [][NextBridge]_vars

\* SpecSelectors exercises the selectors of the readers: stores of one
\* primitive field, readers without a selector, with a selector and with a
\* selector that throws.
NextSelectors ==
  \/ \E h \in [store : PlainStores \cup {Undefined}, handlers : TablesOnX,
               refs : UserRefs] :
        ProviderRender(h)
  \/ \E o \in Obs, sel \in Selectors \cup ThrowingSelectors : Subscribe(o, sel)

SpecSelectors == Init /\ [][NextSelectors]_vars

\* SpecDefaults exercises the destructuring defaults: every part of what
\* useHook() yields is given in some cycles and left out in others.
NextDefaults ==
  \/ \E h \in [store : PlainStores \cup {Undefined},
               handlers : {NoTable, [defined |-> TRUE,
                                     table |-> [k \in {"onX"} |-> "f1"]]},
               refs : UserRefs \cup {UndefinedRefs}] :
        ProviderRender(h)
  \/ \E o \in Obs : Subscribe(o, "none")
  \/ UseHandlers

SpecDefaults == Init /\ [][NextDefaults]_vars

\* SpecChildren exercises the children of the two providers: every render
\* of the Provider and of the BridgeProvider gets one of two elements, and
\* the Provider is unmounted and mounted again.
NextChildren ==
  \/ \E h \in [store : PlainStores \cup {Undefined}, handlers : TablesOnX,
               refs : UserRefs, children : Children] :
        ProviderRender(h)
  \/ \E c \in Children : BridgeRenderWith(c)
  \/ Unmount

SpecChildren == Init /\ [][NextChildren]_vars

(***************************************************************************)
(* Properties.                                                             *)
(***************************************************************************)

\* C1: when a snapshot S2 is published after S1, an observer subscribed with
\* a selector f is notified if and only if f(S2) differs from f(S1) field by
\* field; an observer without a selector is notified.
C1_NotifiedIffSelectionDiffers ==
  [][ (variant = "opts" /\ mounted /\ ~ObjectIs(ctxValue', ctxValue)) =>
        \A o \in Obs :
          /\ observers[o].sel = "none" => observers'[o].notified
          /\ observers[o].sel = "count" =>
               LET f1 == selectorFn("count", ctxValue, o).val
                   f2 == selectorFn("count", ctxValue', o).val
               IN observers'[o].notified <=>
                    ~( /\ DOMAIN f2 = DOMAIN f1
                       /\ \A k \in DOMAIN f2 : ObjectIs(f2[k], f1[k]) ) ]_vars

\* C2: with deepMemoize = true, an update cycle that yields a newly allocated
\* store that is isEqual to the current snapshot leaves the current snapshot
\* in place and notifies no observer, with or without a selector.
C2_DeepMemoizeSuppressesEqual ==
  [][ ( /\ variant = "opts" /\ deepMemoize /\ mounted
        /\ lastStore' # lastStore
        /\ isEqual(IF lastStore' = Undefined
                     THEN Obj(Ref("obj", 0, "new"), EmptyFields)
                     ELSE lastStore',
                   ctxValue) )
      => ( /\ ctxValue' = ctxValue
           /\ \A o \in Obs : ~observers'[o].notified ) ]_vars

C2_Witness ==
  /\ variant = "opts" /\ deepMemoize /\ mounted
  /\ lastStore # Undefined
  /\ lastStore.ref # ctxValue.ref
  /\ isEqual(lastStore, ctxValue)
  /\ "items" \in DOMAIN ctxValue.val
  /\ lastStore.val.items.ref # ctxValue.val.items.ref
  /\ published = "none"
  /\ observers["o1"].sel = "none" /\ ~observers["o1"].notified
  /\ observers["o2"].sel = "count" /\ ~observers["o2"].notified

\* C3: with deepMemoize = false, every update cycle that yields a newly
\* allocated store, even one isEqual to the previous one, publishes it and
\* notifies every observer subscribed without a selector.
C3_ShallowMemoizePublishesFresh ==
  [][ ( /\ variant = "opts" /\ ~deepMemoize /\ mounted
        /\ lastStore' # lastStore )
      => ( /\ ~ObjectIs(ctxValue', ctxValue)
           /\ lastStore' # Undefined => ctxValue' = lastStore'
           /\ \A o \in Obs :
                observers[o].sel = "none" => observers'[o].notified ) ]_vars

C3_Witness ==
  /\ variant = "opts" /\ ~deepMemoize
  /\ published = "equal"
  /\ ctxValue = lastStore
  /\ "items" \in DOMAIN ctxValue.val
  /\ \A o \in Obs : observers[o].sel = "none" /\ observers[o].notified

\* C4: whenever a wrapper call invokes a callback, the callback is the one
\* registered under the wrapper's name in the handler table of the most
\* recent update cycle, whatever the table was when the wrapper was obtained.
C4_WrapperInvokesCurrentCallback ==
  [][ \A i \in DOMAIN calls' :
        ( /\ i \in DOMAIN calls => calls[i].cb = "none"
          /\ calls'[i].cb # "none" )
        => ( /\ calls'[i].key \in DOMAIN lastHandlers
             /\ calls'[i].cb = lastHandlers[calls'[i].key] ) ]_vars

C4_Witness ==
  \E i \in DOMAIN calls :
    /\ calls[i].key = "onX"
    /\ calls[i].seen = "f1"
    /\ calls[i].cb = "f2"
    /\ lastHandlers = [k \in {"onX"} |-> "f2"]

\* C5: an update cycle that replaces the handler table and supplies refs
\* while the store is the same leaves the current snapshot unchanged and
\* notifies no observer; reading the handlers changes neither the observers
\* nor the current snapshot.
C5_HandlersAndRefsDoNotPublish ==
  [][ /\ ( /\ mounted /\ ~rerenderPending
           /\ lastHandlers' # lastHandlers
           /\ lastStore # Undefined /\ lastStore' = lastStore )
         => ( /\ ctxValue' = ctxValue
              /\ published' = "none"
              /\ \A o \in Obs : ~observers'[o].notified )
      /\ held' # held => (observers' = observers /\ ctxValue' = ctxValue) ]_vars

C5_Witness ==
  /\ mounted /\ ~rerenderPending
  /\ held.tid = 1
  /\ held.cur # lastHandlers
  /\ lastStore # Undefined
  /\ ctxValue = lastStore
  /\ published = "none"
  /\ \A o \in Obs : observers[o].sel # "unsub" /\ ~observers[o].notified

C7_DeferredAfterCallerTurn ==
  \A i \in DOMAIN calls :
    /\ forceAsyncHandlers => calls[i].deferred
    /\ calls[i].deferred =>
         /\ calls[i].inTurn =>
              ( /\ calls[i].st = "scheduled"
                /\ calls[i].cb = "none"
                /\ calls[i].res = NoResult )
         /\ calls[i].st = "resolved" =>
              ( /\ calls[i].cb # "none"
                /\ calls[i].beh \in {"return", "promise"}
                /\ calls[i].res = callbackOutcome(calls[i].cb, calls[i].arg, "return") )

C7_Witness ==
  \E i \in DOMAIN calls :
    /\ calls[i].deferred /\ ~calls[i].inTurn
    /\ calls[i].beh = "return"
    /\ calls[i].st = "resolved"
    /\ calls[i].res = << "val", "f1", 1 >>

\* C8: in forced-deferred mode a wrapper call that has not settled can still
\* settle: a timer of it is queued or the promise its callback returned is
\* pending.  A call that is neither stays pending forever.
C8_DeferredCallCanSettle ==
  \A i \in DOMAIN calls :
    calls[i].deferred =>
      \/ calls[i].st \in {"resolved", "rejected"}
      \/ calls[i].inner = "pending"
      \/ \E j \in DOMAIN timers : timers[j].i = i

\* C9: in forced-deferred mode, when the callback throws or the promise it
\* returned rejects, the wrapper's promise is rejected with the same error.
C9_DeferredFailureRejects ==
  \A i \in DOMAIN calls :
    (calls[i].deferred /\ (calls[i].beh = "throw" \/ calls[i].inner = "rejected"))
      => ( /\ calls[i].st = "rejected"
           /\ calls[i].res = << "err", calls[i].cb, calls[i].arg >> )

\* C10: in passthrough mode a wrapper call invokes, inside the call, the
\* callback of the latest handler table with the caller's argument, and
\* returns what it returned or throws what it threw.
C10_PassthroughIsTransparent ==
  [][ (Len(calls') = Len(calls) + 1 /\ ~forceAsyncHandlers) =>
        LET c == calls'[Len(calls')]
        IN /\ ~c.deferred
           /\ c.key \in DOMAIN lastHandlers =>
                /\ c.cb = lastHandlers[c.key]
                /\ c.cbArg = c.arg
                /\ c.beh \in Behaviours
                /\ c.st = (IF c.beh = "throw" THEN "threw" ELSE "returned")
                /\ c.res = << (IF c.beh = "throw" THEN "err"
                               ELSE IF c.beh = "return" THEN "val"
                               ELSE "promise"), c.cb, c.arg >> ]_vars

C10_Witness ==
  \E i, j \in DOMAIN calls :
    /\ ~calls[i].deferred /\ calls[i].st = "returned" /\ calls[i].beh = "return"
    /\ calls[i].res = << "val", calls[i].cb, 1 >>
    /\ ~calls[j].deferred /\ calls[j].st = "threw" /\ calls[j].beh = "throw"
    /\ calls[j].res = << "err", calls[j].cb, 1 >>

\* C11: an instance whose options give only a name memoizes its store by
\* isEqual and has wrappers that run the callback inside the call: no call
\* of such an instance is deferred.
C11_NameOnlyGivesDefaults ==
  (opts.deepMemoize = "unset" /\ opts.forceAsyncHandlers = "unset") =>
    /\ published # "equal"
    /\ \A i \in DOMAIN calls : ~calls[i].deferred /\ calls[i].st \in {"returned", "threw"}

\* C12: between two update cycles of the mounted Provider that both supply a
\* refs table, the object the refs reader returns stays the same.
C12_RefsOfFirstCycleKept ==
  [][ (mounted /\ mounted' /\ lastRefs' \in RefsTables) => useRefs' = useRefs ]_vars

C12_Witness ==
  /\ mounted
  /\ useRefs = Ref("refs", 1, "")
  /\ lastRefs = Ref("refs", 2, "")

\* C14: in development mode a glaukos() call whose name is the name of an
\* instance constructed before never constructs an instance.
C14_DuplicateNameFailsInDevelopment ==
  [][ (env = "development" /\ idCounter' = idCounter + 1) =>
        lastCall'.opts.name \notin
          ({name} \cup { others[k].name : k \in DOMAIN others }) ]_vars

\* C15: outside development mode a glaukos() call with a used name
\* constructs an instance with an id and a slot of its own, and a step that
\* changes what the readers of one instance return changes nothing of any
\* other instance.
C15_RelaxedDuplicatesIndependent ==
  [][ env # "development" =>
        /\ ( /\ lastCall' # lastCall \/ idCounter' # idCounter
             /\ lastCall'.opts.defined /\ lastCall'.opts.hasName )
           => ( /\ lastCall'.result = "ok"
                /\ idCounter' = idCounter + 1
                /\ DOMAIN globalStore'.state = DOMAIN globalStore.state \cup {idCounter'}
                /\ idCounter' \notin DOMAIN globalStore.state
                /\ \A i \in DOMAIN globalStore.state :
                     globalStore'.state[i] = globalStore.state[i]
                /\ ctxValue' = ctxValue
                /\ \A k \in DOMAIN others : others'[k] = others[k] )
        /\ ( \/ globalStore'.state[providerId] # globalStore.state[providerId]
             \/ ctxValue' # ctxValue )
           => (others' = others /\ idCounter' = idCounter)
        /\ \A k \in DOMAIN others :
             ( \/ globalStore'.state[others[k].id] # globalStore.state[others[k].id]
               \/ others'[k].ctxValue # others[k].ctxValue )
             => ( /\ globalStore'.state[providerId] = globalStore.state[providerId]
                  /\ ctxValue' = ctxValue /\ handlersRef' = handlersRef
                  /\ \A j \in DOMAIN others \ {k} :
                       /\ others'[j] = others[j]
                       /\ globalStore'.state[others[j].id]
                            = globalStore.state[others[j].id] ) ]_vars

C15_Witness ==
  /\ env = "production"
  /\ lastCall.result = "ok" /\ lastCall.logged
  /\ mounted
  /\ globalStore.state[providerId].handlers.tid = 1
  /\ Len(others) = 1
  /\ others[1].name = name /\ others[1].id = 2 /\ others[1].mounted
  /\ globalStore.state[2].handlers.tid = 21
  /\ globalStore.state[2].refs # globalStore.state[providerId].refs
  /\ others[1].ctxValue # ctxValue

\* C16: a glaukos() call without options, without a name or with the name ""
\* fails.
C16_BadOptionsFail ==
  ( /\ lastCall.result # "none"
    /\ \/ ~lastCall.opts.defined
       \/ ~lastCall.opts.hasName
       \/ lastCall.opts.name = "" )
  => lastCall.result \in {"no options", "no name"}

\* C17: a glaukos() call that fails leaves the global object, the id counter
\* and the constructed instances as they were.
C17_FailedCallLeavesRegistry ==
  [][ ( /\ lastCall' # lastCall \/ idCounter' # idCounter
        /\ lastCall'.result \notin {"ok", "none"} )
      => ( /\ globalStore' = globalStore
           /\ idCounter' = idCounter
           /\ others' = others ) ]_vars

C17_Witness ==
  /\ lastCall.result = "duplicate name"
  /\ name \in globalStore.names
  /\ idCounter = providerId
  /\ DOMAIN globalStore.state = {providerId}
  /\ others = << >>

\* C20: once the slot of the instance has got its wrapper table and its refs
\* table, no later step replaces either of them.
C20_SlotInitialisedOnce ==
  [][ created >= 1 =>
        globalStore'.state[providerId] = globalStore.state[providerId] ]_vars

C19_NoSelectorComparedFieldByField ==
  [][ ( /\ mounted
        /\ lastStore' # Undefined
        /\ ~ObjectIs(lastStore', ctxValue)
        /\ DOMAIN lastStore'.val = DOMAIN ctxValue.val
        /\ \A k \in DOMAIN ctxValue.val :
             ObjectIs(lastStore'.val[k], ctxValue.val[k]) )
      => \A o \in Obs :
           observers[o].sel = "none" => ~observers'[o].notified ]_vars

\* C21: in forced-deferred mode the callback a timer invokes is the one the
\* handler table of the latest update cycle registers under the wrapper's
\* name, whatever it was when the wrapper was called, and it is invoked after
\* the caller's turn with the argument of the call.
C21_DeferredReadsLatestHandler ==
  [][ \A i \in DOMAIN calls :
        (calls[i].deferred /\ calls[i].cb = "none" /\ calls'[i].cb # "none")
        => ( /\ calls[i].key \in DOMAIN lastHandlers
             /\ calls'[i].cb = lastHandlers[calls[i].key]
             /\ calls'[i].cbArg = calls[i].arg
             /\ ~calls[i].inTurn ) ]_vars

C21_Witness ==
  \E i \in DOMAIN calls :
    /\ calls[i].deferred
    /\ calls[i].key = "onX"
    /\ calls[i].atCall = "f1"
    /\ calls[i].cb = "f2"
    /\ calls[i].cbArg = calls[i].arg
    /\ lastHandlers["onX"] = "f2"

\* C22: the keys of the registry are the ids of the constructed instances,
\* one per instance and no two alike; the slot of an instance is there from
\* the glaukos() call on, with no wrapper and an empty refs table, and no
\* step removes a slot or changes the id of an instance.
C22_OneSlotPerInstance ==
  [][ /\ DOMAIN globalStore'.state
           = {providerId} \cup { others'[k].id : k \in DOMAIN others' }
      /\ \A j, k \in DOMAIN others' :
           /\ others'[k].id # providerId
           /\ j # k => others'[j].id # others'[k].id
      /\ DOMAIN globalStore.state \subseteq DOMAIN globalStore'.state
      /\ \A k \in DOMAIN others :
           k \in DOMAIN others' /\ others'[k].id = others[k].id
      /\ Len(others') > Len(others) =>
           LET o == others'[Len(others')]
           IN /\ o.id \notin DOMAIN globalStore.state
              /\ globalStore'.state[o.id].handlers.keys = {}
              /\ globalStore'.state[o.id].refs = Ref("refs", 0, "other") ]_vars

C22_Witness ==
  /\ Len(others) = 1
  /\ others[1].name = name
  /\ others[1].mounted
  /\ others[1].id # providerId
  /\ created = 2 /\ mounted
  /\ DOMAIN globalStore.state = {providerId, others[1].id}
  /\ globalStore.state[others[1].id].handlers.keys = {"onX"}

\* C23: once an update cycle has ended, the current snapshot is the store
\* that cycle yielded (isEqual to it with deepMemoize, the same object
\* without; an empty mapping when the store was left out), and no further
\* render pass is pending.
C23_PublishedWithinTheCycle ==
  mounted =>
    /\ ~rerenderPending
    /\ IF lastStore = Undefined THEN ctxValue.val = EmptyFields
       ELSE IF deepMemoize THEN isEqual(ctxValue, lastStore)
       ELSE ObjectIs(ctxValue, lastStore)

\* C24: with deepMemoize the memoized store and the current snapshot are
\* replaced only by a store that is not isEqual to them, the replacement is
\* the store whose yield broke the equality, and once no render pass is
\* pending the current snapshot is isEqual to the store of the latest cycle:
\* a later store isEqual to the current snapshot is dropped.
C24_EqualCandidatesDiscarded ==
  [][ (deepMemoize /\ mounted) =>
        /\ ~ObjectIs(memoizedStore', memoizedStore) =>
             ~isEqual(memoizedStore', memoizedStore)
        /\ ~ObjectIs(ctxValue', ctxValue) =>
             /\ ~isEqual(ctxValue', ctxValue)
             /\ \/ lastStore' = Undefined /\ ctxValue'.val = EmptyFields
                \/ variant = "opts" /\ ctxValue' = lastStore'
                \/ variant = "tsx" /\ ctxValue' = concurrentSafeStore
        /\ ~rerenderPending' =>
             isEqual(ctxValue', IF lastStore' = Undefined
                                  THEN Obj(Ref("obj", 0, "new"), EmptyFields)
                                  ELSE lastStore') ]_vars

C24_Witness ==
  /\ deepMemoize /\ mounted /\ ~rerenderPending
  /\ lastStore # Undefined
  /\ ~ObjectIs(lastStore, ctxValue)
  /\ isEqual(lastStore, ctxValue)
  /\ memoizedStore = ctxValue
  /\ deepRef = << ctxValue >>
  /\ ctxValue.val.count = Prim(1)
  /\ published = "none"

\* C25: in forced-deferred mode the callback is invoked after the caller's
\* turn, and the step in which the callback completes, or in which the
\* promise it returned settles, leaves the wrapper's promise unsettled: it
\* is resolved or rejected by a later step.
C25_SettlesAfterFurtherTurn ==
  [][ \A i \in DOMAIN calls :
        calls[i].deferred =>
          /\ (calls[i].cb = "none" /\ calls'[i].cb # "none") =>
               ( /\ ~calls[i].inTurn
                 /\ calls'[i].st \notin {"resolved", "rejected"} )
          /\ (calls[i].inner = "pending" /\ calls'[i].inner # "pending") =>
               calls'[i].st \notin {"resolved", "rejected"} ]_vars

\* C26: a wrapper call invokes a callback at most once; when the handler
\* table registers the wrapper's name it invokes the callback exactly once,
\* inside the call in passthrough mode and in the one timer of the call in
\* forced-deferred mode; and after the invocation, failed or not, no step
\* invokes a callback for that call again.
C26_OneInvocationPerCall ==
  [][ \A i \in DOMAIN calls' :
        LET c == calls'[i]
        IN /\ c.n <= 1
           /\ (c.n = 1) = (c.cb # "none")
           /\ (~c.deferred /\ c.atCall # "undefined") =>
                (c.n = 1 /\ c.cb = c.atCall)
           /\ c.deferred =>
                /\ c.inTurn => c.n = 0
                /\ ( /\ i \in DOMAIN calls /\ calls[i].st = "scheduled"
                     /\ c.st # "scheduled"
                     /\ c.key \in DOMAIN lastHandlers ) => c.n = 1
           /\ (i \in DOMAIN calls /\ calls[i].n = 1) =>
                (c.n = 1 /\ c.cb = calls[i].cb /\ c.beh = calls[i].beh) ]_vars

C26_Witness ==
  \E i \in DOMAIN calls :
    /\ calls[i].deferred
    /\ calls[i].beh = "throw"
    /\ calls[i].n = 1
    /\ ~calls[i].inTurn
    /\ timers = << >>
    /\ Len(calls) = MaxCalls

C28_ReaderReturnsCurrentSelection ==
  \A o \in Obs :
    (observers[o].sel # "unsub" /\ observers[o].pos = "inside") =>
      /\ mounted
      /\ observers[o].sel = "none" => observers[o].selected = ctxValue
      /\ observers[o].sel = "count" =>
           /\ observers[o].selected.ref.k = "sel"
           /\ DOMAIN observers[o].selected.val = {"count"}
           /\ observers[o].selected.val.count =
                (IF "count" \in DOMAIN ctxValue.val THEN ctxValue.val.count
                 ELSE Undefined)

C28_Witness ==
  /\ mounted
  /\ published = "changed"
  /\ "count" \in DOMAIN ctxValue.val
  /\ ctxValue.val.count = Prim(1)
  /\ observers["o1"].sel = "none" /\ observers["o1"].notified
  /\ observers["o1"].selected = ctxValue
  /\ observers["o2"].sel = "count" /\ observers["o2"].notified
  /\ observers["o2"].selected.val = [count |-> Prim(1)]

\* C29: when the selector of a reader throws on the snapshot it is applied
\* to, in the render that subscribes the reader or when a new snapshot is
\* published, what the reader gets is that error and no selection; a reader
\* that failed is not given a value by any later step.
C29_SelectorErrorPropagates ==
  [][ \A o \in Obs :
        /\ ( /\ observers'[o].sel \in ThrowingSelectors
             /\ ~failed(observers[o])
             /\ observers'[o] # observers[o]
             /\ selectorThrows(observers'[o].sel, ctxValue') )
           => ( /\ failed(observers'[o])
                /\ observers'[o].selected
                     = Obj(Ref("error", ctxValue'.ref.n, o), EmptyFields) )
        /\ failed(observers[o]) =>
             observers'[o].selected = observers[o].selected ]_vars

C29_Witness ==
  /\ mounted
  /\ failed(observers["o1"]) /\ observers["o1"].sel \in ThrowingSelectors
  /\ observers["o1"].notified
  /\ observers["o1"].selected.ref.n = ctxValue.ref.n
  /\ observers["o2"].sel = "count" /\ observers["o2"].notified
  /\ observers["o2"].selected.val = [count |-> Prim(1)]
  /\ ctxValue.val = [count |-> Prim(1)]

C31_EqualYieldsSettle ==
  [][ LET y == IF lastStore = Undefined
                 THEN Obj(Ref("obj", 0, "new"), EmptyFields) ELSE lastStore
          z == IF lastStore' = Undefined
                 THEN Obj(Ref("obj", 0, "new"), EmptyFields) ELSE lastStore'
      IN ( /\ mounted
           /\ held' = held
           /\ \A o \in Obs : observers'[o].sel = observers[o].sel
           /\ isEqual(z, y) )
         => ( /\ ~rerenderPending'
              /\ isEqual(ctxValue', z)
              /\ ~rerenderPending =>
                   /\ isEqual(ctxValue', ctxValue)
                   /\ deepMemoize => ctxValue' = ctxValue ) ]_vars

C31_Witness ==
  /\ variant = "tsx"
  /\ mounted /\ ~rerenderPending
  /\ lastStore # Undefined
  /\ ~ObjectIs(lastStore, ctxValue)
  /\ isEqual(lastStore, ctxValue)
  /\ concurrentSafeStore = ctxValue
  /\ effectRef = << ctxValue >>
  /\ published = "changed"
  /\ ctxValue.val.count = Prim(1)

\* C32: the names the handlers reader exposes are the keys of the handler
\* table of the Provider's first update cycle and no later cycle changes
\* them; a wrapper called when the latest table does not register its name
\* invokes no callback and fails: the call throws in passthrough mode, the
\* promise is rejected in forced-deferred mode.
C32_ExposedNamesAreFirstCycleKeys ==
  [][ /\ (~mounted /\ mounted') =>
           globalStore'.state[providerId].handlers.keys = DOMAIN lastHandlers'
      /\ mounted =>
           globalStore'.state[providerId].handlers.keys
             = globalStore.state[providerId].handlers.keys
      /\ \A i \in DOMAIN calls' :
           LET c == calls'[i]
           IN /\ ( /\ i \notin DOMAIN calls /\ ~c.deferred
                   /\ c.key \notin DOMAIN lastHandlers )
                 => (c.st = "threw" /\ c.res = TypeError /\ c.n = 0)
              /\ ( /\ i \in DOMAIN calls /\ calls[i].st = "scheduled"
                   /\ c.st # "scheduled"
                   /\ c.key \notin DOMAIN lastHandlers )
                 => (c.st = "rejected" /\ c.res = TypeError /\ c.n = 0) ]_vars

\* C33: a name enters globalStore.names in the first render of the Provider
\* of an instance of that name and in no other step, a glaukos() call leaves
\* the names as they are, and no step, unmounting included, removes a name
\* or a slot.
C33_NamesEnteredByFirstRender ==
  [][ /\ globalStore.names \subseteq globalStore'.names
      /\ DOMAIN globalStore.state \subseteq DOMAIN globalStore'.state
      /\ (lastCall' # lastCall \/ idCounter' # idCounter) =>
           globalStore'.names = globalStore.names
      /\ (~mounted /\ mounted') => name \in globalStore'.names
      /\ \A nm \in globalStore'.names \ globalStore.names :
           \/ nm = name /\ ~mounted /\ mounted'
           \/ \E k \in DOMAIN others :
                /\ others[k].name = nm
                /\ ~others[k].mounted /\ others'[k].mounted ]_vars

C33_Witness ==
  /\ ~mounted /\ created = 1
  /\ name \in globalStore.names
  /\ Len(others) = 1
  /\ others[1].name = "Other" /\ ~others[1].mounted
  /\ "Other" \notin globalStore.names
  /\ DOMAIN globalStore.state = {providerId, others[1].id}

\* C34: in forced-deferred mode, of two wrapper calls made one after the
\* other the timer of the later one runs after the timer of the earlier one,
\* and while the earlier promise is unsettled the later one is settled only
\* if the earlier callback returned a promise.
C34_DeferredCallsKeepOrder ==
  \A i, j \in DOMAIN calls :
    (i < j /\ calls[i].deferred /\ calls[j].deferred) =>
      /\ calls[j].st # "scheduled" => calls[i].st # "scheduled"
      /\ ( /\ calls[j].st \in {"resolved", "rejected"}
           /\ calls[i].st \notin {"resolved", "rejected"} )
         => calls[i].beh = "promise"

\* C35: the children the Provider renders are the ones of the render that
\* mounted it: while it stays mounted no update cycle, whatever store and
\* children it brings, replaces them.  The children the BridgeProvider
\* renders are the ones of its latest render.
C35_ProviderKeepsFirstChildren ==
  [][ /\ (~mounted /\ mounted') =>
           subtree'.memoizedChildren = subtree'.children
      /\ (mounted /\ mounted') =>
           subtree'.memoizedChildren = subtree.memoizedChildren
      /\ mounted' => subtree'.memoizedChildren \in Children
      /\ bridge'.built =>
           subtree'.bridgeMemoizedChildren = subtree'.bridgeChildren ]_vars

C35_Witness ==
  /\ mounted /\ ~rerenderPending
  /\ published = "changed"
  /\ subtree.children = Obj(Ref("jsx", 2, ""), EmptyFields)
  /\ subtree.memoizedChildren = Obj(Ref("jsx", 1, ""), EmptyFields)
  /\ bridge.built
  /\ subtree.bridgeChildren = Obj(Ref("jsx", 2, ""), EmptyFields)
  /\ subtree.bridgeMemoizedChildren = subtree.bridgeChildren
  /\ created = 1

\* C36: a glaukos() call is reported as a duplicate name, by an Error or by
\* console.error, only if its name is one that the first render of the
\* Provider of an instance entered in globalStore.names.
C36_DuplicateOnlyAfterProviderRan ==
  [][ ( /\ lastCall' # lastCall \/ idCounter' # idCounter
        /\ lastCall'.result = "duplicate name" \/ lastCall'.logged )
      => lastCall'.opts.name \in globalStore.names ]_vars

====
